---- MODULE Spec2Model ----
(***************************************************************************)
(* Traffic-correlation pipeline of sniffer.py: burst extraction, greedy    *)
(* event correlation, shape normalisation, shape correlation and the       *)
(* threshold decision.                                                     *)
(*                                                                         *)
(* Packets and events are pairs <<time, size>> (Python's p[0], p[1]).      *)
(* Times and sizes are integers (times in seconds); the thresholds TE, TS  *)
(* and ETA are the decimal literals of the source, converted to IEEE-754   *)
(* binary64 as Python does, and every float operation of the source        *)
(* (int + float, int / float, int / int, int(), <, >) is computed with     *)
(* binary64 rounding (round-half-even on a 53-bit significand).            *)
(***************************************************************************)
EXTENDS Integers, Sequences, FiniteSets

(***************************************************************************)
(* Natural numbers of up to 75 bits: five 15-bit limbs, least significant  *)
(* first.  They carry the significands of the floats.                      *)
(***************************************************************************)
Base == 32768

BigZero == <<0, 0, 0, 0, 0>>

BigOf(n) == <<n % Base, (n \div Base) % Base, n \div (Base * Base), 0, 0>>

BigToInt(x) == x[1] + Base * x[2]

\* 2 * x + c for a bit c
BigDouble(x, c) ==
    LET s1 == 2 * x[1] + c
        s2 == 2 * x[2] + s1 \div Base
        s3 == 2 * x[3] + s2 \div Base
        s4 == 2 * x[4] + s3 \div Base
        s5 == 2 * x[5] + s4 \div Base
    IN  <<s1 % Base, s2 % Base, s3 % Base, s4 % Base, s5 % Base>>

BigAdd(x, y) ==
    LET s1 == x[1] + y[1]
        s2 == x[2] + y[2] + s1 \div Base
        s3 == x[3] + y[3] + s2 \div Base
        s4 == x[4] + y[4] + s3 \div Base
        s5 == x[5] + y[5] + s4 \div Base
    IN  <<s1 % Base, s2 % Base, s3 % Base, s4 % Base, s5 % Base>>

\* x - y for x >= y
BigSub(x, y) ==
    LET d1 == x[1] - y[1]
        d2 == x[2] - y[2] + d1 \div Base
        d3 == x[3] - y[3] + d2 \div Base
        d4 == x[4] - y[4] + d3 \div Base
        d5 == x[5] - y[5] + d4 \div Base
    IN  <<d1 % Base, d2 % Base, d3 % Base, d4 % Base, d5 % Base>>

BigLess(x, y) ==
    IF x[5] # y[5] THEN x[5] < y[5]
    ELSE IF x[4] # y[4] THEN x[4] < y[4]
    ELSE IF x[3] # y[3] THEN x[3] < y[3]
    ELSE IF x[2] # y[2] THEN x[2] < y[2]
    ELSE x[1] < y[1]

\* x * c for a small c
BigMulSmall(x, c) ==
    LET s1 == x[1] * c
        s2 == x[2] * c + s1 \div Base
        s3 == x[3] * c + s2 \div Base
        s4 == x[4] * c + s3 \div Base
        s5 == x[5] * c + s4 \div Base
    IN  <<s1 % Base, s2 % Base, s3 % Base, s4 % Base, s5 % Base>>

\* x * 2^(15 * n)
BigShlLimbs(x, n) ==
    LET limb(j) == IF j > n THEN x[j - n] ELSE 0
    IN  <<limb(1), limb(2), limb(3), limb(4), limb(5)>>

\* x * 2^k
BigShl(x, k) == BigMulSmall(BigShlLimbs(x, k \div 15), 2 ^ (k % 15))

RECURSIVE SmallBitLen(_)
SmallBitLen(n) == IF n = 0 THEN 0 ELSE 1 + SmallBitLen(n \div 2)

BitLen(x) ==
    IF x[5] # 0 THEN 60 + SmallBitLen(x[5])
    ELSE IF x[4] # 0 THEN 45 + SmallBitLen(x[4])
    ELSE IF x[3] # 0 THEN 30 + SmallBitLen(x[3])
    ELSE IF x[2] # 0 THEN 15 + SmallBitLen(x[2])
    ELSE SmallBitLen(x[1])

Bit(x, i) == IF i >= 75 THEN 0 ELSE (x[i \div 15 + 1] \div (2 ^ (i % 15))) % 2

\* floor(x / 2^k)
BigShr(x, k) ==
    LET n == k \div 15
        lo == 2 ^ (k % 15)
        hi == 2 ^ (15 - (k % 15))
        limb(j) == IF j <= 5 THEN x[j] ELSE 0
        out(j) == limb(j + n) \div lo + (limb(j + n + 1) % lo) * hi
    IN  <<out(1), out(2), out(3), out(4), out(5)>>

\* one step of the binary long division of a * 2^k by b, at bit i of the
\* dividend
\* with quotient q so far and the remainder r2 extended by the next bit
Subtract(q, r2, b) ==
    IF BigLess(r2, b) THEN [q |-> BigDouble(q, 0), r |-> r2]
    ELSE [q |-> BigDouble(q, 1), r |-> BigSub(r2, b)]

DivStep(a, k, b, i, st) ==
    Subtract(st.q, BigDouble(st.r, IF i >= k THEN Bit(a, i - k) ELSE 0), b)

\* the bits i, i - 1, ..., 0 of the dividend, eight per call while they last
RECURSIVE LongDivFrom(_, _, _, _, _)
RECURSIVE LongDivNext(_, _, _, _, _)
LongDivFrom(a, k, b, i, st) ==
    IF i < 0 THEN st
    ELSE IF i < 7
    THEN LongDivNext(a, k, b, i - 1, DivStep(a, k, b, i, st))
    ELSE LongDivNext(a, k, b, i - 8,
                   DivStep(a, k, b, i - 7, DivStep(a, k, b, i - 6,
                   DivStep(a, k, b, i - 5, DivStep(a, k, b, i - 4,
                   DivStep(a, k, b, i - 3, DivStep(a, k, b, i - 2,
                   DivStep(a, k, b, i - 1, DivStep(a, k, b, i, st)))))))))

LongDivNext(a, k, b, i, st) ==
    IF st.q[1] >= 0 THEN LongDivFrom(a, k, b, i, st) ELSE st

\* the leading lb bits of a, a having la bits
LeadingBits(a, la, lb) ==
    IF la >= lb THEN BigShr(a, la - lb) ELSE BigShl(a, lb - la)

\* quotient q and remainder r of (a * 2^k) divided by b, for a, b > 0 and
\* BitLen(a) + k >= BitLen(b): the leading BitLen(b) bits of the dividend
\* are less than 2 * b and are divided in one step
LongDiv(a, k, b) ==
    LongDivFrom(a, k, b, BitLen(a) + k - BitLen(b) - 1,
                Subtract(BigZero, LeadingBits(a, BitLen(a), BitLen(b)), b))

Two53 == BigShl(BigOf(1), 53)

(***************************************************************************)
(* binary64 values: s * m * 2^e with s the sign, m < 2^53 (m = 2^53 after  *)
(* a rounding carry denotes the same number).  Zero is FloatZero.          *)
(***************************************************************************)
FloatZero == [s |-> 1, m |-> BigZero, e |-> 0]

\* float(n) for a Python int n, exact for |n| < 2^30
FloatOfInt(n) ==
    IF n = 0 THEN FloatZero
    ELSE IF n < 0 THEN [s |-> -1, m |-> BigOf(0 - n), e |-> 0]
    ELSE [s |-> 1, m |-> BigOf(n), e |-> 0]

\* q + 1 if the discarded fraction is above one half, or is one half and q
\* is odd (round-half-even)
RoundUp(q, above_half, is_half) ==
    IF above_half \/ (is_half /\ q[1] % 2 = 1) THEN BigAdd(q, BigOf(1)) ELSE q

\* the float s * (d.q + d.r / b) * 2^e for a quotient d.q of 54 or 55 bits
\* and a remainder d.r, rounded to 53 bits
RoundQuotient(d, s, e) ==
    IF BigLess(d.q, BigDouble(Two53, 0))
    THEN [s |-> s,
          m |-> RoundUp(BigShr(d.q, 1),
                        d.q[1] % 2 = 1 /\ d.r # BigZero,
                        d.q[1] % 2 = 1 /\ d.r = BigZero),
          e |-> e + 1]
    ELSE [s |-> s,
          m |-> RoundUp(BigShr(d.q, 2),
                        d.q[1] % 4 = 3 \/ (d.q[1] % 4 = 2 /\ d.r # BigZero),
                        d.q[1] % 4 = 2 /\ d.r = BigZero),
          e |-> e + 2]

\* x / y with the quotient of the significands scaled by 2^k
ScaledDiv(x, y, k) ==
    RoundQuotient(LongDiv(x.m, k, y.m), x.s * y.s, x.e - y.e - k)

\* x / y for y # 0, correctly rounded: the quotient of the significands is
\* taken with 54 or 55 bits and rounded to 53
truediv(x, y) ==
    IF x.m = BigZero THEN FloatZero
    ELSE ScaledDiv(x, y, 54 - BitLen(x.m) + BitLen(y.m))

\* x + y for x, y >= 0, correctly rounded
float_add(x, y) ==
    LET e == IF x.e < y.e THEN x.e ELSE y.e
        n == BigAdd(BigShl(x.m, x.e - e), BigShl(y.m, y.e - e))
        drop == BitLen(n) - 53
        q == BigShr(n, drop)
        r == BigSub(n, BigShl(q, drop))
        half == BigShl(BigOf(1), drop - 1)
    IN  IF drop <= 0 THEN [s |-> 1, m |-> n, e |-> e]
        ELSE [s |-> 1, m |-> RoundUp(q, BigLess(half, r), r = half),
              e |-> e + drop]

\* |x| < |y| for x, y # 0
MagLess(x, y) ==
    LET hx == BitLen(x.m) + x.e
        hy == BitLen(y.m) + y.e
    IN  IF hx # hy THEN hx < hy
        ELSE IF x.e >= y.e THEN BigLess(BigShl(x.m, x.e - y.e), y.m)
        ELSE BigLess(x.m, BigShl(y.m, y.e - x.e))

\* x < y
float_lt(x, y) ==
    IF x.m = BigZero THEN y.m # BigZero /\ y.s = 1
    ELSE IF y.m = BigZero THEN x.s = -1
    ELSE IF x.s # y.s THEN x.s = -1
    ELSE IF x.s = 1 THEN MagLess(x, y) ELSE MagLess(y, x)

\* int(x): truncation toward zero
int(x) ==
    IF x.m = BigZero THEN 0
    ELSE IF x.e >= 0 THEN x.s * BigToInt(BigShl(x.m, x.e))
    ELSE x.s * BigToInt(BigShr(x.m, 0 - x.e))

\* the binary64 value of the decimal literal num/den
float(lit) == truediv(FloatOfInt(lit.num), FloatOfInt(lit.den))

(***************************************************************************)
(* Constants of the source, as written there.                              *)
(***************************************************************************)
Lit(n, d) == [num |-> n, den |-> d]

TE == Lit(1, 2)
TS == Lit(1, 100)
DELTA == 3
GAMMA == 10
ETA == Lit(9, 10)

\* the binary64 values the names TE, TS and ETA are bound to
TE_float == float(TE)
TS_float == float(TS)
ETA_float == float(ETA)

(***************************************************************************)
(* Results of a call: a returned value or a raised exception.              *)
(***************************************************************************)
Return(v) == [raised |-> "none", value |-> v]
Raise(x) == [raised |-> x]
Unset == [unset |-> TRUE]

abs(n) == IF n < 0 THEN 0 - n ELSE n

RECURSIVE sum_sizes(_, _)
sum_sizes(event_packets, k) ==
    IF k > Len(event_packets) THEN 0
    ELSE event_packets[k][2] + sum_sizes(event_packets, k + 1)

aggregate_event(event_packets) ==
    <<event_packets[Len(event_packets)][1], sum_sizes(event_packets, 1)>>

\* line 56 with <= for <
same_burst_le(traffic, i, te) ==
    i = 1 \/ ~float_lt(te, FloatOfInt(traffic[i][1] - traffic[i - 1][1]))

\* the test of line 56 for packet i (1-based)
same_burst(traffic, i, te) ==
    i = 1 \/ float_lt(FloatOfInt(traffic[i][1] - traffic[i - 1][1]), te)

\* lines 53-63 without the final flush of lines 61-62
RECURSIVE extract_loop_noflush(_, _, _, _, _)
extract_loop_noflush(traffic, te, i, events, current_event) ==
    IF i > Len(traffic) THEN events
    ELSE IF i = 1
            \/ float_lt(FloatOfInt(traffic[i][1] - traffic[i - 1][1]), te)
         THEN extract_loop_noflush(traffic, te, i + 1, events,
                                   Append(current_event, traffic[i]))
         ELSE extract_loop_noflush(traffic, te, i + 1,
                  Append(events, <<current_event[Len(current_event)][1],
                                   sum_sizes(current_event, 1)>>),
                  <<traffic[i]>>)

RECURSIVE extract_loop(_, _, _, _, _)
extract_loop(traffic, te, i, events, current_event) ==
    IF i > Len(traffic)
    THEN IF current_event # <<>>
         THEN Append(events, aggregate_event(current_event))
         ELSE events
    ELSE IF same_burst(traffic, i, te)
         THEN extract_loop(traffic, te, i + 1, events,
                           Append(current_event, traffic[i]))
         ELSE extract_loop(traffic, te, i + 1,
                           Append(events, aggregate_event(current_event)),
                           <<traffic[i]>>)

extract_events(traffic, te) == extract_loop(traffic, te, 1, <<>>, <<>>)

\* lines 97-100 with the time test inverted
is_match_inverted(ch_event, user_event, delta, gamma) ==
    /\ abs(ch_event[1] - user_event[1]) >= delta
    /\ abs(ch_event[2] - user_event[2]) <= gamma

\* the condition of lines 97-100
is_match(ch_event, user_event, delta, gamma) ==
    /\ abs(ch_event[1] - user_event[1]) <= delta
    /\ abs(ch_event[2] - user_event[2]) <= gamma

\* lines 96-102 without the break: every matching user event counts
RECURSIVE scan_user_events_nobreak(_, _, _, _, _)
scan_user_events_nobreak(ch_event, user_events, delta, gamma, j) ==
    IF j > Len(user_events) THEN 0
    ELSE (IF /\ abs(ch_event[1] - user_events[j][1]) <= delta
             /\ abs(ch_event[2] - user_events[j][2]) <= gamma
          THEN 1 ELSE 0)
         + scan_user_events_nobreak(ch_event, user_events, delta, gamma, j + 1)

\* lines 96-102 with the break outside the if: only the first user event
\* is looked at
scan_user_events_first(ch_event, user_events, delta, gamma, j) ==
    IF j > Len(user_events) THEN 0
    ELSE IF /\ abs(ch_event[1] - user_events[j][1]) <= delta
            /\ abs(ch_event[2] - user_events[j][2]) <= gamma
         THEN 1 ELSE 0

\* the inner loop of lines 96-102: what one channel event adds to matches
RECURSIVE scan_user_events(_, _, _, _, _)
scan_user_events(ch_event, user_events, delta, gamma, j) ==
    IF j > Len(user_events) THEN 0
    ELSE IF is_match(ch_event, user_events[j], delta, gamma) THEN 1
    ELSE scan_user_events(ch_event, user_events, delta, gamma, j + 1)

RECURSIVE count_matches(_, _, _, _, _)
count_matches(user_events, channel_events, delta, gamma, k) ==
    IF k > Len(channel_events) THEN 0
    ELSE scan_user_events(channel_events[k], user_events, delta, gamma, 1)
         + count_matches(user_events, channel_events, delta, gamma, k + 1)

calculate_event_correlation(user_events, channel_events, delta, gamma) ==
    LET matches == count_matches(user_events, channel_events, delta, gamma, 1)
    IN  IF Len(channel_events) = 0 THEN Raise("ZeroDivisionError")
        ELSE Return(truediv(FloatOfInt(matches),
                            FloatOfInt(Len(channel_events))))

max_event_time(events) ==
    CHOOSE t \in {events[k][1] : k \in 1..Len(events)} :
        \A k \in 1..Len(events) : events[k][1] <= t

\* int(x / ts) for an int x, lines 118 and 120
bin_of(x, ts) == int(truediv(x, ts))

\* the loop of lines 119-121; bins[i + 1] is Python's bins[i]
RECURSIVE fill_bins(_, _, _, _)
RECURSIVE add_to_bin(_, _, _, _, _)
fill_bins(bins, events, ts, k) ==
    IF k > Len(events) THEN Return(bins)
    ELSE add_to_bin(bins, events, ts, k,
                    bin_of(FloatOfInt(events[k][1]), ts))

\* line 121 for event k
add_to_bin(bins, events, ts, k, bin_index) ==
    IF bin_index >= Len(bins) THEN Raise("IndexError")
    ELSE fill_bins([bins EXCEPT ![bin_index + 1] = @ + events[k][2]],
                   events, ts, k + 1)

\* times are non-negative, so no bin index is negative
normalize_traffic_shape(events, ts) ==
    IF Len(events) = 0 THEN Raise("ValueError")
    ELSE LET max_time == float_add(FloatOfInt(max_event_time(events)), ts)
             n == bin_of(max_time, ts)
         IN  fill_bins([i \in 1..n |-> 0], events, ts, 1)

\* sum(a[i] * b[i] for i in lo..hi)
RECURSIVE dot(_, _, _, _)
dot(a, b, lo, hi) ==
    IF lo > hi THEN 0
    ELSE IF lo = hi THEN a[lo] * b[lo]
    ELSE LET mid == (lo + hi) \div 2
         IN  dot(a, b, lo, mid) + dot(a, b, mid + 1, hi)

min(a, b) == IF a < b THEN a ELSE b

shape_numerator(user_shape, channel_shape) ==
    2 * dot(user_shape, channel_shape, 1,
            min(Len(user_shape), Len(channel_shape)))

\* lines 138-140 without the channel term
shape_denominator_user(user_shape, channel_shape) ==
    dot(user_shape, user_shape, 1, min(Len(user_shape), Len(channel_shape)))

shape_denominator(user_shape, channel_shape) ==
    LET n == min(Len(user_shape), Len(channel_shape))
    IN  dot(user_shape, user_shape, 1, n)
        + dot(channel_shape, channel_shape, 1, n)

calculate_shape_correlation(user_shape, channel_shape) ==
    LET numerator == shape_numerator(user_shape, channel_shape)
        denominator == shape_denominator(user_shape, channel_shape)
    IN  IF denominator = 0 THEN Raise("ZeroDivisionError")
        ELSE Return(truediv(FloatOfInt(numerator), FloatOfInt(denominator)))

\* line 36 with >= for >
exceeds_ge(event_correlation, shape_correlation, eta) ==
    ~float_lt(event_correlation, eta) \/ ~float_lt(shape_correlation, eta)

\* line 36
exceeds(event_correlation, shape_correlation, eta) ==
    float_lt(eta, event_correlation) \/ float_lt(eta, shape_correlation)

\* the locals of identify_communicating_parties when it returns or raises
\* l is the record of the locals assigned so far; each step makes the next
\* call and either stops at its exception or assigns its value
decide(l, sc) ==
    IF sc.raised # "none" THEN [l EXCEPT !.raised = sc.raised]
    ELSE [l EXCEPT !.shape_correlation = sc.value,
                   !.result = exceeds(l.event_correlation, sc.value,
                                      ETA_float)]

correlate_shapes(l, cs) ==
    IF cs.raised # "none" THEN [l EXCEPT !.raised = cs.raised]
    ELSE decide([l EXCEPT !.channel_shape = cs.value],
                calculate_shape_correlation(l.user_shape, cs.value))

normalize_channel(l, us) ==
    IF us.raised # "none" THEN [l EXCEPT !.raised = us.raised]
    ELSE correlate_shapes([l EXCEPT !.user_shape = us.value],
                          normalize_traffic_shape(l.channel_events, TS_float))

normalize_user(l, ec) ==
    IF ec.raised # "none" THEN [l EXCEPT !.raised = ec.raised]
    ELSE normalize_channel([l EXCEPT !.event_correlation = ec.value],
                           normalize_traffic_shape(l.user_events, TS_float))

correlate_events(ue, ce) ==
    normalize_user([user_events |-> ue, channel_events |-> ce,
                    event_correlation |-> Unset, user_shape |-> Unset,
                    channel_shape |-> Unset, shape_correlation |-> Unset,
                    result |-> Unset, raised |-> "none"],
                   calculate_event_correlation(ue, ce, DELTA, GAMMA))

identify(user_traffic, channel_traffic) ==
    correlate_events(extract_events(user_traffic, TE_float),
                     extract_events(channel_traffic, TE_float))

(***************************************************************************)
(* Bounds of the explored inputs.                                          *)
(***************************************************************************)
MaxLen == 3
MaxTime == 3
MaxSize == 2
MaxUser == 2
MaxChannel == 2
MaxEventTime == 1
MaxPipelineTime == 2
MaxTol == 1

SeqsUpTo(S, n) == UNION {[1..k -> S] : k \in 0..n}

\* inputs of extract_events and normalize_traffic_shape
Packets == (0..MaxTime) \X (1..MaxSize)
Traces == SeqsUpTo(Packets, MaxLen)
TeVals == {TE, Lit(1, 1), Lit(2, 1)}
TsVals == {TS, Lit(2, 1), Lit(3, 1)}

\* inputs of calculate_event_correlation
Events == (0..MaxEventTime) \X (1..MaxSize)

\* inputs of identify_communicating_parties: two sizes more than GAMMA
\* apart, and three fixed traces
PipelinePackets == (0..MaxPipelineTime) \X {100, 100 + GAMMA + 1}
BoundaryUser ==
    <<<<1, 60>>, <<2, 60>>, <<3, 2>>, <<4, 1>>, <<5, 3>>, <<6, 2>>,
      <<7, 1>>, <<8, 1>>, <<9, 2>>>>
BoundaryChannel ==
    <<<<0, 40>>, <<1, 60>>, <<2, 60>>, <<3, 1>>, <<4, 1>>, <<5, 2>>,
      <<6, 1>>, <<7, 2>>, <<8, 1>>, <<9, 2>>>>
NegativeSize == <<<<0, 100>>, <<1, -100>>>>
UserTraces == SeqsUpTo(PipelinePackets, MaxUser) \cup {BoundaryUser, NegativeSize}
ChannelTraces == SeqsUpTo(PipelinePackets, MaxChannel) \cup {BoundaryChannel}

VARIABLES
    pc,                 \* "call" before the call, "done" after it
    raised,             \* the exception the call raised, or "none"
    traffic, te, events, again,             \* extract_events, and its result
                                            \* extracted once more
    delta, gamma,                           \* calculate_event_correlation
    ts, bins,                               \* normalize_traffic_shape
    user_traffic, channel_traffic,          \* identify_communicating_parties
    user_events, channel_events, event_correlation,
    user_shape, channel_shape, shape_correlation, result

vars == <<pc, raised, traffic, te, events, again, delta, gamma, ts, bins,
          user_traffic, channel_traffic, user_events, channel_events,
          event_correlation, user_shape, channel_shape, shape_correlation,
          result>>

extract_vars == <<traffic, te, events, again>>
shape_vars == <<ts, bins>>
pipeline_vars == <<user_traffic, channel_traffic, user_shape, channel_shape,
                   shape_correlation, result>>

(***************************************************************************)
(* extract_events(traffic, te), then extract_events of its result.         *)
(***************************************************************************)
InitExtract ==
    /\ pc = "call" /\ raised = "none"
    /\ traffic \in Traces /\ te \in TeVals
    /\ events = Unset /\ again = Unset
    /\ delta = Unset /\ gamma = Unset /\ ts = Unset /\ bins = Unset
    /\ user_traffic = Unset /\ channel_traffic = Unset
    /\ user_events = Unset /\ channel_events = Unset
    /\ event_correlation = Unset /\ user_shape = Unset
    /\ channel_shape = Unset /\ shape_correlation = Unset /\ result = Unset

CallExtract ==
    /\ pc = "call"
    /\ events' = extract_events(traffic, float(te))
    /\ pc' = "extracted"
    /\ UNCHANGED <<raised, traffic, te, again, delta, gamma, shape_vars,
                   pipeline_vars, user_events, channel_events,
                   event_correlation>>

CallExtractAgain ==
    /\ pc = "extracted"
    /\ again' = extract_events(events, float(te))
    /\ pc' = "done"
    /\ UNCHANGED <<raised, traffic, te, events, delta, gamma, shape_vars,
                   pipeline_vars, user_events, channel_events,
                   event_correlation>>

NextExtract == CallExtract \/ CallExtractAgain

SpecExtract == InitExtract /\ [][NextExtract]_vars

(***************************************************************************)
(* calculate_event_correlation(user_events, channel_events, delta, gamma)  *)
(***************************************************************************)
InitCorrelation ==
    /\ pc = "call" /\ raised = "none"
    /\ user_events \in SeqsUpTo(Events, MaxUser)
    /\ channel_events \in SeqsUpTo(Events, MaxChannel)
    /\ delta \in 0..MaxTol /\ gamma \in 0..MaxTol
    /\ event_correlation = Unset
    /\ traffic = Unset /\ te = Unset /\ events = Unset /\ again = Unset
    /\ ts = Unset /\ bins = Unset
    /\ user_traffic = Unset /\ channel_traffic = Unset
    /\ user_shape = Unset /\ channel_shape = Unset
    /\ shape_correlation = Unset /\ result = Unset

CallCorrelation ==
    /\ pc = "call"
    /\ \E r \in {calculate_event_correlation(user_events, channel_events,
                                                delta, gamma)} :
           /\ raised' = r.raised
           /\ event_correlation' = IF r.raised = "none" THEN r.value ELSE Unset
    /\ pc' = "done"
    /\ UNCHANGED <<extract_vars, delta, gamma, shape_vars, pipeline_vars,
                   user_events, channel_events>>

NextCorrelation == CallCorrelation

SpecCorrelation == InitCorrelation /\ [][NextCorrelation]_vars

(***************************************************************************)
(* normalize_traffic_shape(events, ts)                                     *)
(***************************************************************************)
InitShape ==
    /\ pc = "call" /\ raised = "none"
    /\ events \in Traces /\ ts \in TsVals
    /\ bins = Unset
    /\ traffic = Unset /\ te = Unset /\ again = Unset
    /\ delta = Unset /\ gamma = Unset
    /\ user_traffic = Unset /\ channel_traffic = Unset
    /\ user_events = Unset /\ channel_events = Unset
    /\ event_correlation = Unset /\ user_shape = Unset
    /\ channel_shape = Unset /\ shape_correlation = Unset /\ result = Unset

CallNormalize ==
    /\ pc = "call"
    /\ \E r \in {normalize_traffic_shape(events, float(ts))} :
           /\ raised' = r.raised
           /\ bins' = IF r.raised = "none" THEN r.value ELSE Unset
    /\ pc' = "done"
    /\ UNCHANGED <<traffic, te, events, again, delta, gamma, ts,
                   pipeline_vars, user_events, channel_events,
                   event_correlation>>

NextShape == CallNormalize

SpecShape == InitShape /\ [][NextShape]_vars

(***************************************************************************)
(* identify_communicating_parties(user_traffic, channel_traffic)           *)
(***************************************************************************)
Init ==
    /\ pc = "call" /\ raised = "none"
    /\ user_traffic \in UserTraces /\ channel_traffic \in ChannelTraces
    /\ user_events = Unset /\ channel_events = Unset
    /\ event_correlation = Unset /\ user_shape = Unset
    /\ channel_shape = Unset /\ shape_correlation = Unset /\ result = Unset
    /\ traffic = Unset /\ te = Unset /\ events = Unset /\ again = Unset
    /\ delta = Unset /\ gamma = Unset /\ ts = Unset /\ bins = Unset

CallIdentify ==
    /\ pc = "call"
    /\ \E r \in {identify(user_traffic, channel_traffic)} :
           /\ raised' = r.raised
           /\ user_events' = r.user_events
           /\ channel_events' = r.channel_events
           /\ event_correlation' = r.event_correlation
           /\ user_shape' = r.user_shape
           /\ channel_shape' = r.channel_shape
           /\ shape_correlation' = r.shape_correlation
           /\ result' = r.result
    /\ pc' = "done"
    /\ UNCHANGED <<extract_vars, delta, gamma, shape_vars, user_traffic,
                   channel_traffic>>

Next == CallIdentify

Spec == Init /\ [][Next]_vars

(***************************************************************************)
(* Properties of extract_events, checked under SpecExtract.  Gaps are      *)
(* compared with the threshold as written (te.num / te.den), in exact      *)
(* arithmetic.                                                             *)
(***************************************************************************)
Ascending(tr) == \A i \in 2..Len(tr) : tr[i - 1][1] <= tr[i][1]

Gap(tr, i) == tr[i][1] - tr[i - 1][1]

\* the packets that start a burst: the first, and each at least te after
\* its predecessor
BurstStarts(tr, lit) ==
    {i \in 1..Len(tr) : i = 1 \/ Gap(tr, i) * lit.den >= lit.num}

\* the last packet of the burst that starts at packet b
BurstEnd(tr, lit, b) ==
    CHOOSE j \in b..Len(tr) :
        /\ \A i \in (b + 1)..j : i \notin BurstStarts(tr, lit)
        /\ j = Len(tr) \/ (j + 1) \in BurstStarts(tr, lit)

\* the k-th burst start
NthStart(tr, lit, k) ==
    CHOOSE b \in BurstStarts(tr, lit) :
        Cardinality({x \in BurstStarts(tr, lit) : x <= b}) = k

RECURSIVE RangeSize(_, _, _)
RangeSize(tr, a, b) == IF a > b THEN 0 ELSE tr[a][2] + RangeSize(tr, a + 1, b)

\* C2: on a time-ascending trace extract_events emits one event per maximal
\* run of packets whose gaps are strictly below te, in order, with the time
\* of the run's last packet and the sum of the run's sizes; an empty trace
\* gives no event and a single packet gives that packet
C2_BurstPartition ==
    (pc # "call" /\ Ascending(traffic)) =>
        /\ Len(events) = Cardinality(BurstStarts(traffic, te))
        /\ \A k \in 1..Len(events) :
              LET b == NthStart(traffic, te, k)
                  l == BurstEnd(traffic, te, b)
              IN  events[k] = <<traffic[l][1], RangeSize(traffic, b, l)>>
        /\ (traffic = <<>> => events = <<>>)
        /\ (Len(traffic) = 1 => events = traffic)

\* a trace with a gap equal to te (a new burst) and a smaller gap (the same
\* burst) has been extracted
C2_Witness ==
    /\ pc = "extracted" /\ Ascending(traffic) /\ Len(traffic) = 3
    /\ Gap(traffic, 2) * te.den < te.num
    /\ Gap(traffic, 3) * te.den = te.num
    /\ events = <<<<traffic[2][1], traffic[1][2] + traffic[2][2]>>, traffic[3]>>

\* C10: on a time-ascending trace the events are time-ascending with
\* consecutive times at least te apart, and extracting the events once more
\* returns the same events
C10_Idempotent ==
    (pc = "done" /\ Ascending(traffic)) =>
        /\ \A k \in 2..Len(events) : Gap(events, k) * te.den >= te.num
        /\ again = events

\* a trace whose packets merged into two events has been extracted twice
C10_Witness ==
    /\ pc = "done" /\ Ascending(traffic)
    /\ Len(traffic) = 3 /\ Len(events) = 2 /\ Len(again) = 2

(***************************************************************************)
(* Properties of calculate_event_correlation, checked under                *)
(* SpecCorrelation.                                                        *)
(***************************************************************************)
Within(ch, us, d, g) ==
    /\ ch[1] - us[1] <= d /\ us[1] - ch[1] <= d
    /\ ch[2] - us[2] <= g /\ us[2] - ch[2] <= g

\* the channel events that have at least one user event within d and g
Matched(us_seq, ch_seq, d, g) ==
    {k \in 1..Len(ch_seq) :
        \E j \in 1..Len(us_seq) : Within(ch_seq[k], us_seq[j], d, g)}

Score(us_seq, ch_seq, d, g) ==
    calculate_event_correlation(us_seq, ch_seq, d, g).value

\* C3: for a non-empty channel sequence the score is matched_count divided
\* by the number of channel events, where matched_count counts the channel
\* events with at least one user event within delta and gamma, each once
C3_MatchedFraction ==
    (pc = "done" /\ channel_events # <<>>) =>
        /\ raised = "none"
        /\ event_correlation =
              truediv(FloatOfInt(Cardinality(Matched(user_events,
                                     channel_events, delta, gamma))),
                      FloatOfInt(Len(channel_events)))

\* two channel events matched by the same single user event, and a channel
\* event with two matching user events, both counted once
C3_Witness ==
    /\ pc = "done" /\ raised = "none"
    /\ Len(user_events) = 2 /\ Len(channel_events) = 2
    /\ Within(channel_events[1], user_events[1], delta, gamma)
    /\ Within(channel_events[1], user_events[2], delta, gamma)
    /\ Within(channel_events[2], user_events[1], delta, gamma)
    /\ ~float_lt(event_correlation, FloatOfInt(1))
    /\ ~float_lt(FloatOfInt(1), event_correlation)

\* C6 (as claimed): with no channel event the score is the fallback 0 and
\* nothing is raised
C6_EmptyChannelScoresZero ==
    (pc = "done" /\ channel_events = <<>>) =>
        (raised = "none" /\ event_correlation = FloatZero)

\* C8: for fixed events the score does not decrease when delta or gamma
\* grows
C8_Monotone ==
    (pc = "done" /\ channel_events # <<>>) =>
        \A d \in delta..(MaxTol + 1) : \A g \in gamma..(MaxTol + 1) :
            ~float_lt(Score(user_events, channel_events, d, g),
                      event_correlation)

\* a larger tolerance that strictly raises the score of the call made
C8_Witness ==
    /\ pc = "done" /\ channel_events # <<>>
    /\ float_lt(FloatZero, event_correlation)
    /\ float_lt(event_correlation,
                Score(user_events, channel_events, delta + 1, gamma))
    /\ float_lt(event_correlation,
                Score(user_events, channel_events, delta, gamma + 1))

Orders(n) == {p \in [1..n -> 1..n] : \A i, j \in 1..n : p[i] = p[j] => i = j}

Reordered(us_seq, p) == [i \in 1..Len(us_seq) |-> us_seq[p[i]]]

\* C9 (as claimed): for the channel events and tolerances of the call, some
\* user event sequence has a reordering with a different score
C9_OrderDependent ==
    (pc = "done" /\ channel_events # <<>>) =>
        \E us_seq \in SeqsUpTo(Events, MaxUser) :
            \E p \in Orders(Len(us_seq)) :
                Score(Reordered(us_seq, p), channel_events, delta, gamma)
                    # Score(us_seq, channel_events, delta, gamma)

\* C9 (amended): every reordering of the user events gives the same score
C9_OrderIndependent ==
    (pc = "done" /\ channel_events # <<>>) =>
        \A p \in Orders(Len(user_events)) :
            Score(Reordered(user_events, p), channel_events, delta, gamma)
                = event_correlation

\* a channel event whose first match is found at a different position in
\* the two orders of the user events
C9_Witness ==
    /\ pc = "done" /\ Len(channel_events) = 1 /\ Len(user_events) = 2
    /\ ~Within(channel_events[1], user_events[1], delta, gamma)
    /\ Within(channel_events[1], user_events[2], delta, gamma)
    /\ ~float_lt(event_correlation, FloatOfInt(1))

(***************************************************************************)
(* Properties of normalize_traffic_shape, checked under SpecShape.  The    *)
(* bin size of a state is the exact rational ts.num / ts.den.              *)
(***************************************************************************)
MaxOf(S) == CHOOSE x \in S : \A y \in S : y <= x

LastTime(ev) == MaxOf({ev[k][1] : k \in 1..Len(ev)})

\* ceil((max_event_time + ts) / ts)
CeilLength(ev, lit) ==
    (LastTime(ev) * lit.den + lit.num + lit.num - 1) \div lit.num

\* the events whose time lies in [i * ts, (i + 1) * ts), i counted from 0
InBucket(ev, lit, i) ==
    {k \in 1..Len(ev) :
        /\ i * lit.num <= ev[k][1] * lit.den
        /\ ev[k][1] * lit.den < (i + 1) * lit.num}

RECURSIVE SizeOver(_, _)
SizeOver(ev, K) ==
    IF K = {} THEN 0
    ELSE LET k == CHOOSE x \in K : TRUE
         IN  ev[k][2] + SizeOver(ev, K \ {k})

\* C4 (as claimed): for a non-empty event sequence the call returns a shape
\* of length ceil((max_event_time + ts) / ts) whose bucket i holds the sum
\* of the sizes of the events with time in [i * ts, (i + 1) * ts)
C4_ShapeBuckets ==
    (pc = "done" /\ events # <<>>) =>
        /\ raised = "none"
        /\ Len(bins) = CeilLength(events, ts)
        /\ \A i \in 1..Len(bins) :
              bins[i] = SizeOver(events, InBucket(events, ts, i - 1))

(***************************************************************************)
(* Properties of identify_communicating_parties, checked under Spec.  The  *)
(* scores are restated as exact fractions of integers: matched / total for *)
(* the events and twice / energy for the shapes.                           *)
(***************************************************************************)
RECURSIVE SumOver(_, _)
SumOver(f, K) ==
    IF K = {} THEN 0
    ELSE LET k == CHOOSE x \in K : TRUE
         IN  f[k] + SumOver(f, K \ {k})

\* the buckets of the overlapping prefix where either shape is not 0
Support(a, b) ==
    {i \in 1..Len(a) : i <= Len(b) /\ (a[i] # 0 \/ b[i] # 0)}

Twice(a, b) ==
    2 * SumOver([i \in Support(a, b) |-> a[i] * b[i]], Support(a, b))

Energy(a, b) ==
    SumOver([i \in Support(a, b) |-> a[i] * a[i] + b[i] * b[i]],
            Support(a, b))

MatchedCount == Cardinality(Matched(user_events, channel_events, DELTA, GAMMA))

\* C1: a call that returns, returns True exactly when matched / total or
\* twice / energy is strictly greater than ETA; both equal to ETA gives
\* False
C1_Decision ==
    (pc = "done" /\ raised = "none") =>
        (result <=>
            \/ MatchedCount * ETA.den > ETA.num * Len(channel_events)
            \/ Twice(user_shape, channel_shape) * ETA.den
                  > ETA.num * Energy(user_shape, channel_shape))

\* both scores exactly ETA, and the verdict is False
C1_Witness ==
    /\ pc = "done" /\ raised = "none"
    /\ MatchedCount * ETA.den = ETA.num * Len(channel_events)
    /\ Twice(user_shape, channel_shape) * ETA.den
          = ETA.num * Energy(user_shape, channel_shape)
    /\ result = FALSE

Valid(tr) ==
    /\ tr # <<>> /\ Ascending(tr)
    /\ \A k \in 1..Len(tr) : tr[k][2] > 0

InUnit(x) == ~float_lt(x, FloatZero) /\ ~float_lt(FloatOfInt(1), x)

Malformed(tr) ==
    \/ tr = <<>>
    \/ ~Ascending(tr)
    \/ \E k \in 1..Len(tr) : tr[k][2] < 0

\* C7 (as claimed): a call with a malformed trace (empty, timestamps not
\* non-decreasing, or a negative size) ends in a failure and returns no
\* verdict
C7_MalformedRejected ==
    (pc = "done" /\ (Malformed(user_traffic) \/ Malformed(channel_traffic)))
        => raised # "none"

====
